---- MODULE Spec2Model ----
(***************************************************************************)
(* Model of MM_With_QR.py: one run of the "Run Mail Merge" button handler. *)
(* Strings are sequences of one-character strings so that strip(), upper(),*)
(* lower() and sanitize_filename() are computed, not assumed.              *)
(* A file path is represented by its base name: the folder and the         *)
(* extension are fixed by which of the two disks (docx, pdf) holds it.     *)
(***************************************************************************)
EXTENDS Naturals, Sequences, FiniteSets, TLC

VARIABLES
    pc,                  \* position of the handler in the script
    qr_mode,             \* sidebar radio "QR Code Mode"
    output_format,       \* sidebar radio "Output Format"
    excel,               \* the uploaded spreadsheet: "ok", "unreadable", "missing"
    template,            \* the uploaded template: "ok", "corrupt", "missing"
    validation,          \* outcome of the input checks of this run
    df,                  \* the table, with Account_Frequency / Occurrence_Number
    has_qr_col,          \* QR_URL_COL in df.columns
    has_county_col,      \* "Property County" in df.columns
    idx,                 \* loop position of the current stage
    generated_docx_list,
    generated_pdf_list,
    error_count,
    qr_count,
    docxDisk,            \* output folder, *.docx : base name -> content
    pdfDisk,             \* output folder, *.pdf  : base name -> content
    master_doc,          \* the composed document, as a sequence of parts
    master_docx_path,    \* <<>> while the name is unbound
    merger,              \* the PdfMerger's pages, one entry per appended file
    master_pdf_path,     \* <<>> while the name is unbound
    warnings,            \* st.warning calls, in order
    errors,              \* st.error calls, in order
    traceback,           \* stage whose exception reached the run-level handler
    faults               \* environment failures injected so far

vars == <<pc, qr_mode, output_format, excel, template, validation, df,
          has_qr_col, has_county_col, idx, generated_docx_list,
          generated_pdf_list, error_count, qr_count, docxDisk, pdfDisk,
          master_doc, master_docx_path, merger, master_pdf_path, warnings,
          errors, traceback, faults>>

----------------------------------------------------------------------------
(* Bounds of the model *)

MaxRows == 2

MaxFaults == 1

----------------------------------------------------------------------------
(* Strings *)

Whitespace == {" "}

RECURSIVE LStrip(_)
LStrip(s) ==
    IF s = <<>> THEN <<>>
    ELSE IF Head(s) \in Whitespace THEN LStrip(Tail(s)) ELSE s

RECURSIVE RStrip(_)
RStrip(s) ==
    IF s = <<>> THEN <<>>
    ELSE IF s[Len(s)] \in Whitespace THEN RStrip(SubSeq(s, 1, Len(s) - 1)) ELSE s

Strip(s) == RStrip(LStrip(s))

UpperChar(c) ==
    CASE c = "a" -> "A"
      [] c = "b" -> "B"
      [] c = "n" -> "N"
      [] c = "k" -> "K"
      [] c = "o" -> "O"
      [] c = "w" -> "W"
      [] c = "u" -> "U"
      [] OTHER -> c

LowerChar(c) ==
    CASE c = "A" -> "a"
      [] c = "B" -> "b"
      [] c = "N" -> "n"
      [] c = "U" -> "u"
      [] OTHER -> c

Upper(s) == [k \in 1..Len(s) |-> UpperChar(s[k])]

Lower(s) == [k \in 1..Len(s) |-> LowerChar(s[k])]

InvalidChars == {"/", "\\", ":", "*", "?", "\"", "<", ">", "|"}

sanitize_filename(name) ==
    [k \in 1..Len(name) |-> IF name[k] \in InvalidChars THEN "-" ELSE name[k]]

Nan == <<"n", "a", "n">>

Unknown == <<"U", "n", "k", "n", "o", "w", "n">>

MailoutSuffix == <<"_", "M", "a", "i", "l", "o", "u", "t">>

MasterName ==
    <<"A", "l", "l", "_", "M", "a", "i", "l", "o", "u", "t", "s", "_",
      "C", "o", "m", "b", "i", "n", "e", "d">>

----------------------------------------------------------------------------
(* The input table *)

K7 == <<"7">>

K7s == <<"7", " ">>

RowValues ==
    { [key |-> K7,                county |-> <<"a">>,      url |-> <<"u">>],
      [key |-> K7,                county |-> <<"B", ":">>, url |-> <<"u", " ">>],
      [key |-> K7s,               county |-> <<"a">>,      url |-> <<"u">>],
      [key |-> K7,                county |-> <<"a">>,      url |-> <<" ">>],
      [key |-> <<" ">>,           county |-> <<"a">>,      url |-> <<"u">>],
      [key |-> <<"N", "a", "N">>, county |-> <<"B", ":">>, url |-> <<" ">>] }

Account_Frequency(rows, i) ==
    Cardinality({j \in 1..Len(rows) : rows[j].key = rows[i].key})

Occurrence_Number(rows, i) ==
    Cardinality({j \in 1..i : rows[j].key = rows[i].key})

\* the frame after fillna(""), with the two derived columns
LoadFrame(rows, hq, hc) ==
    [i \in 1..Len(rows) |->
        [key       |-> rows[i].key,
         county    |-> IF hc THEN rows[i].county ELSE <<>>,
         url       |-> IF hq THEN rows[i].url ELSE <<>>,
         frequency |-> Account_Frequency(rows, i),
         occurrence |-> Occurrence_Number(rows, i)]]

Account(row) == Strip(row.key)

Skipped(row) == Account(row) = <<>> \/ Lower(Account(row)) = Nan

County(row) == Upper(Strip(IF has_county_col THEN row.county ELSE Unknown))

\* base name as computed in STEP 1
MergeBaseName(row) ==
    sanitize_filename(
        IF row.frequency > 1 /\ row.occurrence > 1
        THEN Account(row) \o <<"_">> \o County(row) \o MailoutSuffix
        ELSE Account(row) \o MailoutSuffix)

\* base name as computed again in STEP 3
QRBaseName(row) ==
    sanitize_filename(
        IF row.frequency > 1 /\ row.occurrence > 1
        THEN Account(row) \o <<"_">> \o County(row) \o MailoutSuffix
        ELSE Account(row) \o MailoutSuffix)

Url(row) == IF has_qr_col THEN Strip(row.url) ELSE <<>>

----------------------------------------------------------------------------
(* Configuration *)

DOCX_FORMATS == {"DOCX Only", "Both DOCX and PDF"}

PDF_FORMATS == {"PDF Only", "Both DOCX and PDF"}

Warn(step, id) == warnings' = Append(warnings, [step |-> step, id |-> id])

Init ==
    /\ pc = "start"
    /\ qr_mode \in {"Without QR", "With QR"}
    /\ output_format \in {"DOCX Only", "PDF Only", "Both DOCX and PDF"}
    /\ excel \in {"ok", "unreadable", "missing"}
    /\ template \in {"ok", "corrupt", "missing"}
    /\ validation = "pending"
    /\ df = <<>>
    /\ has_qr_col = FALSE
    /\ has_county_col = FALSE
    /\ idx = 0
    /\ generated_docx_list = <<>>
    /\ generated_pdf_list = <<>>
    /\ error_count = 0
    /\ qr_count = 0
    /\ docxDisk = <<>>
    /\ pdfDisk = <<>>
    /\ master_doc = <<>>
    /\ master_docx_path = <<>>
    /\ merger = <<>>
    /\ master_pdf_path = <<>>
    /\ warnings = <<>>
    /\ errors = <<>>
    /\ traceback = "none"
    /\ faults = 0

----------------------------------------------------------------------------
(* Button handler up to the record loop *)

\* if not uploaded_excel or not uploaded_template: st.error; st.stop()
MissingUploads ==
    /\ pc = "start"
    /\ excel = "missing" \/ template = "missing"
    /\ validation' = "missing_upload"
    /\ errors' = Append(errors, "upload")
    /\ pc' = "stopped"
    /\ UNCHANGED <<qr_mode, output_format, excel, template, df, has_qr_col,
                   has_county_col, idx, generated_docx_list, generated_pdf_list,
                   error_count, qr_count, docxDisk, pdfDisk, master_doc,
                   master_docx_path, merger, master_pdf_path, warnings,
                   traceback, faults>>

\* pd.read_excel raises: the exception reaches the run-level handler
ReadExcelRaise ==
    /\ pc = "start"
    /\ excel = "unreadable" /\ template # "missing"
    /\ validation' = "unreadable"
    /\ errors' = Append(errors, "processing")
    /\ traceback' = "read_excel"
    /\ pc' = "error"
    /\ UNCHANGED <<qr_mode, output_format, excel, template, df, has_qr_col,
                   has_county_col, idx, generated_docx_list, generated_pdf_list,
                   error_count, qr_count, docxDisk, pdfDisk, master_doc,
                   master_docx_path, merger, master_pdf_path, warnings, faults>>

\* REQUIRED_COL not in df.columns: st.error; st.stop()
MissingRequiredCol ==
    /\ pc = "start"
    /\ excel = "ok" /\ template # "missing"
    /\ validation' = "missing_key_col"
    /\ errors' = Append(errors, "column")
    /\ pc' = "stopped"
    /\ UNCHANGED <<qr_mode, output_format, excel, template, df, has_qr_col,
                   has_county_col, idx, generated_docx_list, generated_pdf_list,
                   error_count, qr_count, docxDisk, pdfDisk, master_doc,
                   master_docx_path, merger, master_pdf_path, warnings,
                   traceback, faults>>

\* read, validate, check the QR column, derive frequency and occurrence
ReadExcel ==
    /\ pc = "start"
    /\ excel = "ok" /\ template # "missing"
    /\ \E n \in 0..MaxRows, hq \in BOOLEAN, hc \in BOOLEAN :
         \E rows \in [1..n -> RowValues] :
            /\ df' = LoadFrame(rows, hq, hc)
            /\ has_qr_col' = hq
            /\ has_county_col' = hc
            /\ warnings' = IF qr_mode = "With QR" /\ ~hq
                           THEN Append(warnings, [step |-> "qr_col", id |-> 0])
                           ELSE warnings
    /\ validation' = "ok"
    /\ idx' = 1
    /\ pc' = "merge"
    /\ UNCHANGED <<qr_mode, output_format, excel, template,
                   generated_docx_list, generated_pdf_list, error_count,
                   qr_count, docxDisk, pdfDisk, master_doc, master_docx_path,
                   merger, master_pdf_path, errors, traceback, faults>>

----------------------------------------------------------------------------
(* STEP 1: MAIL MERGE (DOCX) *)

DocxFile(i) == [rec |-> i, intact |-> TRUE]

BrokenFile(i) == [rec |-> i, intact |-> FALSE]

\* the file at p exists and opens
Readable(disk, p) == IF p \in DOMAIN disk THEN disk[p].intact ELSE FALSE

\* key empty or "nan": continue
MergeSkip ==
    /\ pc = "merge"
    /\ idx <= Len(df)
    /\ Skipped(df[idx])
    /\ idx' = idx + 1
    /\ UNCHANGED <<pc, qr_mode, output_format, excel, template, validation, df,
                   has_qr_col, has_county_col, generated_docx_list,
                   generated_pdf_list, error_count, qr_count, docxDisk, pdfDisk,
                   master_doc, master_docx_path, merger, master_pdf_path,
                   warnings, errors, traceback, faults>>

\* the try block runs to its end: the document is written and its path listed
MergeOK ==
    /\ pc = "merge"
    /\ idx <= Len(df)
    /\ ~Skipped(df[idx])
    /\ template = "ok"
    /\ docxDisk' = (MergeBaseName(df[idx]) :> DocxFile(idx)) @@ docxDisk
    /\ generated_docx_list' = Append(generated_docx_list, MergeBaseName(df[idx]))
    /\ idx' = idx + 1
    /\ UNCHANGED <<pc, qr_mode, output_format, excel, template, validation, df,
                   has_qr_col, has_county_col, generated_pdf_list, error_count,
                   qr_count, pdfDisk, master_doc, master_docx_path, merger,
                   master_pdf_path, warnings, errors, traceback, faults>>

\* variant: the path is listed although the merge raised
MergeRaiseListsPath ==
    /\ pc = "merge"
    /\ idx <= Len(df)
    /\ ~Skipped(df[idx])
    /\ template = "corrupt" \/ faults < MaxFaults
    /\ faults' = IF template = "corrupt" THEN faults ELSE faults + 1
    /\ error_count' = error_count + 1
    /\ Warn("merge", idx)
    /\ generated_docx_list' = Append(generated_docx_list, MergeBaseName(df[idx]))
    /\ idx' = idx + 1
    /\ UNCHANGED <<pc, qr_mode, output_format, excel, template, validation, df,
                   has_qr_col, has_county_col, generated_pdf_list,
                   qr_count, docxDisk, pdfDisk, master_doc,
                   master_docx_path, merger, master_pdf_path, errors, traceback>>

\* MailMerge(template_path) or document.merge raises: always for a corrupt
\* template, otherwise as an injected failure; nothing is written
MergeRaise ==
    /\ pc = "merge"
    /\ idx <= Len(df)
    /\ ~Skipped(df[idx])
    /\ template = "corrupt" \/ faults < MaxFaults
    /\ faults' = IF template = "corrupt" THEN faults ELSE faults + 1
    /\ error_count' = error_count + 1
    /\ Warn("merge", idx)
    /\ idx' = idx + 1
    /\ UNCHANGED <<pc, qr_mode, output_format, excel, template, validation, df,
                   has_qr_col, has_county_col, generated_docx_list,
                   generated_pdf_list, qr_count, docxDisk, pdfDisk, master_doc,
                   master_docx_path, merger, master_pdf_path, errors, traceback>>

\* document.write raises part-way: a truncated file is left at docx_abs
MergeWriteRaise ==
    /\ pc = "merge"
    /\ idx <= Len(df)
    /\ ~Skipped(df[idx])
    /\ template = "ok"
    /\ faults < MaxFaults
    /\ faults' = faults + 1
    /\ docxDisk' = (MergeBaseName(df[idx]) :> BrokenFile(idx)) @@ docxDisk
    /\ error_count' = error_count + 1
    /\ Warn("merge", idx)
    /\ idx' = idx + 1
    /\ UNCHANGED <<pc, qr_mode, output_format, excel, template, validation, df,
                   has_qr_col, has_county_col, generated_docx_list,
                   generated_pdf_list, qr_count, pdfDisk, master_doc,
                   master_docx_path, merger, master_pdf_path, errors, traceback>>

\* the loop is exhausted: st.success, on to STEP 2
MergeEnd ==
    /\ pc = "merge"
    /\ idx > Len(df)
    /\ pc' = "convert"
    /\ idx' = 1
    /\ UNCHANGED <<qr_mode, output_format, excel, template, validation, df,
                   has_qr_col, has_county_col, generated_docx_list,
                   generated_pdf_list, error_count, qr_count, docxDisk, pdfDisk,
                   master_doc, master_docx_path, merger, master_pdf_path,
                   warnings, errors, traceback, faults>>

----------------------------------------------------------------------------
(* STEP 2: CONVERT TO PDF *)

PdfFile(i) == [rec |-> i, intact |-> TRUE, qr |-> <<>>]

\* if output_format in ["PDF Only", "Both DOCX and PDF"] is false
ConvertStageSkip ==
    /\ pc = "convert"
    /\ output_format \notin PDF_FORMATS
    /\ pc' = "qr"
    /\ idx' = 1
    /\ UNCHANGED <<qr_mode, output_format, excel, template, validation, df,
                   has_qr_col, has_county_col, generated_docx_list,
                   generated_pdf_list, error_count, qr_count, docxDisk, pdfDisk,
                   master_doc, master_docx_path, merger, master_pdf_path,
                   warnings, errors, traceback, faults>>

\* soffice writes the sibling PDF; the path exists and is listed
ConvertOK ==
    /\ pc = "convert"
    /\ output_format \in PDF_FORMATS
    /\ idx <= Len(generated_docx_list)
    /\ LET docx_path == generated_docx_list[idx] IN
         /\ docx_path \in DOMAIN docxDisk
         /\ docxDisk[docx_path].intact
         /\ pdfDisk' = (docx_path :> PdfFile(docxDisk[docx_path].rec)) @@ pdfDisk
         /\ generated_pdf_list' = Append(generated_pdf_list, docx_path)
    /\ idx' = idx + 1
    /\ UNCHANGED <<pc, qr_mode, output_format, excel, template, validation, df,
                   has_qr_col, has_county_col, generated_docx_list, error_count,
                   qr_count, docxDisk, master_doc, master_docx_path, merger,
                   master_pdf_path, warnings, errors, traceback, faults>>

\* subprocess.run raises (non-zero exit, timeout): warned, None returned
ConvertRaise ==
    /\ pc = "convert"
    /\ output_format \in PDF_FORMATS
    /\ idx <= Len(generated_docx_list)
    /\ LET docx_path == generated_docx_list[idx]
           unreadable == ~Readable(docxDisk, docx_path) IN
         /\ unreadable \/ faults < MaxFaults
         /\ faults' = IF unreadable THEN faults ELSE faults + 1
    /\ Warn("convert", idx)
    /\ idx' = idx + 1
    /\ UNCHANGED <<pc, qr_mode, output_format, excel, template, validation, df,
                   has_qr_col, has_county_col, generated_docx_list,
                   generated_pdf_list, error_count, qr_count, docxDisk, pdfDisk,
                   master_doc, master_docx_path, merger, master_pdf_path,
                   errors, traceback>>

ConvertEnd ==
    /\ pc = "convert"
    /\ output_format \in PDF_FORMATS
    /\ idx > Len(generated_docx_list)
    /\ pc' = "qr"
    /\ idx' = 1
    /\ UNCHANGED <<qr_mode, output_format, excel, template, validation, df,
                   has_qr_col, has_county_col, generated_docx_list,
                   generated_pdf_list, error_count, qr_count, docxDisk, pdfDisk,
                   master_doc, master_docx_path, merger, master_pdf_path,
                   warnings, errors, traceback, faults>>

----------------------------------------------------------------------------
(* STEP 3: ADD QR CODES *)

QRStage == qr_mode = "With QR" /\ has_qr_col /\ Len(generated_pdf_list) > 0

QRStageSkip ==
    /\ pc = "qr"
    /\ ~QRStage
    /\ pc' = "combine_docx"
    /\ idx' = 0
    /\ UNCHANGED <<qr_mode, output_format, excel, template, validation, df,
                   has_qr_col, has_county_col, generated_docx_list,
                   generated_pdf_list, error_count, qr_count, docxDisk, pdfDisk,
                   master_doc, master_docx_path, merger, master_pdf_path,
                   warnings, errors, traceback, faults>>

\* key empty or "nan": continue
QRSkipRow ==
    /\ pc = "qr"
    /\ QRStage
    /\ idx <= Len(df)
    /\ Skipped(df[idx])
    /\ idx' = idx + 1
    /\ UNCHANGED <<pc, qr_mode, output_format, excel, template, validation, df,
                   has_qr_col, has_county_col, generated_docx_list,
                   generated_pdf_list, error_count, qr_count, docxDisk, pdfDisk,
                   master_doc, master_docx_path, merger, master_pdf_path,
                   warnings, errors, traceback, faults>>

\* if url and os.path.exists(pdf_path) is false
QRNoOverlay ==
    /\ pc = "qr"
    /\ QRStage
    /\ idx <= Len(df)
    /\ ~Skipped(df[idx])
    /\ Url(df[idx]) = <<>> \/ QRBaseName(df[idx]) \notin DOMAIN pdfDisk
    /\ idx' = idx + 1
    /\ UNCHANGED <<pc, qr_mode, output_format, excel, template, validation, df,
                   has_qr_col, has_county_col, generated_docx_list,
                   generated_pdf_list, error_count, qr_count, docxDisk, pdfDisk,
                   master_doc, master_docx_path, merger, master_pdf_path,
                   warnings, errors, traceback, faults>>

QRCall ==
    /\ pc = "qr"
    /\ QRStage
    /\ idx <= Len(df)
    /\ ~Skipped(df[idx])
    /\ Url(df[idx]) # <<>>
    /\ QRBaseName(df[idx]) \in DOMAIN pdfDisk

\* add_qr_to_pdf returns True: the overlaid pages replace the file
QROK ==
    /\ QRCall
    /\ pdfDisk[QRBaseName(df[idx])].intact
    /\ pdfDisk' = [pdfDisk EXCEPT ![QRBaseName(df[idx])].qr =
                                      Append(@, Url(df[idx]))]
    /\ qr_count' = qr_count + 1
    /\ idx' = idx + 1
    /\ UNCHANGED <<pc, qr_mode, output_format, excel, template, validation, df,
                   has_qr_col, has_county_col, generated_docx_list,
                   generated_pdf_list, error_count, docxDisk, master_doc,
                   master_docx_path, merger, master_pdf_path, warnings, errors,
                   traceback, faults>>

\* add_qr_to_pdf raises before out_pdf_path is opened (unreadable input,
\* QR image, overlay, page merge): warned, False returned
QRRaise ==
    /\ QRCall
    /\ ~pdfDisk[QRBaseName(df[idx])].intact \/ faults < MaxFaults
    /\ faults' = IF ~pdfDisk[QRBaseName(df[idx])].intact
                 THEN faults ELSE faults + 1
    /\ Warn("qr", idx)
    /\ idx' = idx + 1
    /\ UNCHANGED <<pc, qr_mode, output_format, excel, template, validation, df,
                   has_qr_col, has_county_col, generated_docx_list,
                   generated_pdf_list, error_count, qr_count, docxDisk, pdfDisk,
                   master_doc, master_docx_path, merger, master_pdf_path,
                   errors, traceback>>

\* writer.write raises after open(out_pdf_path, "wb") truncated the input
QRWriteRaise ==
    /\ QRCall
    /\ pdfDisk[QRBaseName(df[idx])].intact
    /\ faults < MaxFaults
    /\ faults' = faults + 1
    /\ pdfDisk' = [pdfDisk EXCEPT ![QRBaseName(df[idx])].intact = FALSE]
    /\ Warn("qr", idx)
    /\ idx' = idx + 1
    /\ UNCHANGED <<pc, qr_mode, output_format, excel, template, validation, df,
                   has_qr_col, has_county_col, generated_docx_list,
                   generated_pdf_list, error_count, qr_count, docxDisk,
                   master_doc, master_docx_path, merger, master_pdf_path,
                   errors, traceback>>

QREnd ==
    /\ pc = "qr"
    /\ QRStage
    /\ idx > Len(df)
    /\ pc' = "combine_docx"
    /\ idx' = 0
    /\ UNCHANGED <<qr_mode, output_format, excel, template, validation, df,
                   has_qr_col, has_county_col, generated_docx_list,
                   generated_pdf_list, error_count, qr_count, docxDisk, pdfDisk,
                   master_doc, master_docx_path, merger, master_pdf_path,
                   warnings, errors, traceback, faults>>

----------------------------------------------------------------------------
(* STEP 4: CREATE COMBINED FILES -- combined DOCX *)

DocPart(i) == [kind |-> "doc", rec |-> i]

PageBreak == [kind |-> "page_break", rec |-> 0]

Remove(disk, p) == [q \in DOMAIN disk \ {p} |-> disk[q]]

CombineDocxStage ==
    output_format \in DOCX_FORMATS /\ Len(generated_docx_list) > 0

CombineDocxSkip ==
    /\ pc = "combine_docx" /\ idx = 0
    /\ ~CombineDocxStage
    /\ pc' = "combine_pdf"
    /\ UNCHANGED <<qr_mode, output_format, excel, template, validation, df,
                   has_qr_col, has_county_col, idx, generated_docx_list,
                   generated_pdf_list, error_count, qr_count, docxDisk,
                   pdfDisk, master_doc, master_docx_path, merger,
                   master_pdf_path, warnings, errors, traceback, faults>>

\* a listed per-record DOCX is gone from the output folder at combine time
DocxFileLoss ==
    /\ pc = "combine_docx" /\ idx = 0
    /\ CombineDocxStage
    /\ faults < MaxFaults
    /\ faults' = faults + 1
    /\ \E k \in 1..Len(generated_docx_list) :
         /\ generated_docx_list[k] \in DOMAIN docxDisk
         /\ docxDisk' = Remove(docxDisk, generated_docx_list[k])
    /\ UNCHANGED <<pc, qr_mode, output_format, excel, template, validation,
                   df, has_qr_col, has_county_col, idx, generated_docx_list,
                   generated_pdf_list, error_count, qr_count, pdfDisk,
                   master_doc, master_docx_path, merger, master_pdf_path,
                   warnings, errors, traceback>>

\* a listed per-record DOCX is truncated in the output folder at combine time
DocxFileDamage ==
    /\ pc = "combine_docx" /\ idx = 0
    /\ CombineDocxStage
    /\ faults < MaxFaults
    /\ faults' = faults + 1
    /\ \E k \in 1..Len(generated_docx_list) :
         /\ Readable(docxDisk, generated_docx_list[k])
         /\ docxDisk' = [docxDisk EXCEPT ![generated_docx_list[k]].intact = FALSE]
    /\ UNCHANGED <<pc, qr_mode, output_format, excel, template, validation, df,
                   has_qr_col, has_county_col, idx, generated_docx_list,
                   generated_pdf_list, error_count, qr_count, pdfDisk,
                   master_doc, master_docx_path, merger, master_pdf_path,
                   warnings, errors, traceback>>

\* master_doc = Document(generated_docx_list[0]); composer = Composer(master_doc)
CombineDocxSeed ==
    /\ pc = "combine_docx" /\ idx = 0
    /\ CombineDocxStage
    /\ generated_docx_list[1] \in DOMAIN docxDisk
    /\ docxDisk[generated_docx_list[1]].intact
    /\ master_doc' = <<DocPart(docxDisk[generated_docx_list[1]].rec)>>
    /\ idx' = 2
    /\ UNCHANGED <<pc, qr_mode, output_format, excel, template, validation,
                   df, has_qr_col, has_county_col, generated_docx_list,
                   generated_pdf_list, error_count, qr_count, docxDisk,
                   pdfDisk, master_docx_path, merger, master_pdf_path,
                   warnings, errors, traceback, faults>>

\* Document(generated_docx_list[0]) raises outside any try block
CombineDocxSeedRaise ==
    /\ pc = "combine_docx" /\ idx = 0
    /\ CombineDocxStage
    /\ ~Readable(docxDisk, generated_docx_list[1])
    /\ errors' = Append(errors, "processing")
    /\ traceback' = "combine_docx"
    /\ pc' = "error"
    /\ UNCHANGED <<qr_mode, output_format, excel, template, validation, df,
                   has_qr_col, has_county_col, idx, generated_docx_list,
                   generated_pdf_list, error_count, qr_count, docxDisk,
                   pdfDisk, master_doc, master_docx_path, merger,
                   master_pdf_path, warnings, faults>>

CombineDocxItem ==
    /\ pc = "combine_docx"
    /\ 2 <= idx /\ idx <= Len(generated_docx_list)

\* os.path.exists(doc_path) is false
CombineDocxSkipMissing ==
    /\ CombineDocxItem
    /\ generated_docx_list[idx] \notin DOMAIN docxDisk
    /\ idx' = idx + 1
    /\ UNCHANGED <<pc, qr_mode, output_format, excel, template, validation,
                   df, has_qr_col, has_county_col, generated_docx_list,
                   generated_pdf_list, error_count, qr_count, docxDisk,
                   pdfDisk, master_doc, master_docx_path, merger,
                   master_pdf_path, warnings, errors, traceback, faults>>

\* Document(doc_path) raises: except: pass
CombineDocxOpenRaise ==
    /\ CombineDocxItem
    /\ generated_docx_list[idx] \in DOMAIN docxDisk
    /\ ~docxDisk[generated_docx_list[idx]].intact
    /\ idx' = idx + 1
    /\ UNCHANGED <<pc, qr_mode, output_format, excel, template, validation,
                   df, has_qr_col, has_county_col, generated_docx_list,
                   generated_pdf_list, error_count, qr_count, docxDisk,
                   pdfDisk, master_doc, master_docx_path, merger,
                   master_pdf_path, warnings, errors, traceback, faults>>

\* add_page_break, then composer.append
CombineDocxAppend ==
    /\ CombineDocxItem
    /\ generated_docx_list[idx] \in DOMAIN docxDisk
    /\ docxDisk[generated_docx_list[idx]].intact
    /\ master_doc' = master_doc \o
           <<PageBreak, DocPart(docxDisk[generated_docx_list[idx]].rec)>>
    /\ idx' = idx + 1
    /\ UNCHANGED <<pc, qr_mode, output_format, excel, template, validation,
                   df, has_qr_col, has_county_col, generated_docx_list,
                   generated_pdf_list, error_count, qr_count, docxDisk,
                   pdfDisk, master_docx_path, merger, master_pdf_path,
                   warnings, errors, traceback, faults>>

\* composer.append raises after add_page_break ran: except: pass
CombineDocxAppendRaise ==
    /\ CombineDocxItem
    /\ generated_docx_list[idx] \in DOMAIN docxDisk
    /\ docxDisk[generated_docx_list[idx]].intact
    /\ faults < MaxFaults
    /\ faults' = faults + 1
    /\ master_doc' = Append(master_doc, PageBreak)
    /\ idx' = idx + 1
    /\ UNCHANGED <<pc, qr_mode, output_format, excel, template, validation,
                   df, has_qr_col, has_county_col, generated_docx_list,
                   generated_pdf_list, error_count, qr_count, docxDisk,
                   pdfDisk, master_docx_path, merger, master_pdf_path,
                   warnings, errors, traceback>>

\* variant: the composed document is saved over the file it was opened from
CombineDocxSaveOverFirst ==
    /\ pc = "combine_docx"
    /\ 2 <= idx /\ idx > Len(generated_docx_list)
    /\ docxDisk' = [docxDisk EXCEPT ![generated_docx_list[1]] =
                                        [rec |-> 0, intact |-> TRUE]]
    /\ master_docx_path' = generated_docx_list[1]
    /\ pc' = "combine_pdf"
    /\ idx' = 0
    /\ UNCHANGED <<qr_mode, output_format, excel, template, validation, df,
                   has_qr_col, has_county_col, generated_docx_list,
                   generated_pdf_list, error_count, qr_count, pdfDisk,
                   master_doc, merger, master_pdf_path, warnings, errors,
                   traceback, faults>>

\* composer.save(master_docx_path); the path joins generated_docx_list
CombineDocxSave ==
    /\ pc = "combine_docx"
    /\ 2 <= idx /\ idx > Len(generated_docx_list)
    /\ master_docx_path' = MasterName
    /\ generated_docx_list' = Append(generated_docx_list, MasterName)
    /\ pc' = "combine_pdf"
    /\ idx' = 0
    /\ UNCHANGED <<qr_mode, output_format, excel, template, validation, df,
                   has_qr_col, has_county_col, generated_pdf_list,
                   error_count, qr_count, docxDisk, pdfDisk, master_doc,
                   merger, master_pdf_path, warnings, errors, traceback,
                   faults>>

----------------------------------------------------------------------------
(* STEP 4: CREATE COMBINED FILES -- combined PDF *)

CombinePdfStage ==
    output_format \in PDF_FORMATS /\ Len(generated_pdf_list) > 0

CombinePdfSkip ==
    /\ pc = "combine_pdf" /\ idx = 0
    /\ ~CombinePdfStage
    /\ pc' = "zip"
    /\ UNCHANGED <<qr_mode, output_format, excel, template, validation, df,
                   has_qr_col, has_county_col, idx, generated_docx_list,
                   generated_pdf_list, error_count, qr_count, docxDisk,
                   pdfDisk, master_doc, master_docx_path, merger,
                   master_pdf_path, warnings, errors, traceback, faults>>

\* a listed per-record PDF is gone from the output folder at combine time
PdfFileLoss ==
    /\ pc = "combine_pdf" /\ idx = 0
    /\ CombinePdfStage
    /\ faults < MaxFaults
    /\ faults' = faults + 1
    /\ \E k \in 1..Len(generated_pdf_list) :
         /\ generated_pdf_list[k] \in DOMAIN pdfDisk
         /\ pdfDisk' = Remove(pdfDisk, generated_pdf_list[k])
    /\ UNCHANGED <<pc, qr_mode, output_format, excel, template, validation,
                   df, has_qr_col, has_county_col, idx, generated_docx_list,
                   generated_pdf_list, error_count, qr_count, docxDisk,
                   master_doc, master_docx_path, merger, master_pdf_path,
                   warnings, errors, traceback>>

\* merger = PdfMerger()
CombinePdfBegin ==
    /\ pc = "combine_pdf" /\ idx = 0
    /\ CombinePdfStage
    /\ merger' = <<>>
    /\ idx' = 1
    /\ UNCHANGED <<pc, qr_mode, output_format, excel, template, validation,
                   df, has_qr_col, has_county_col, generated_docx_list,
                   generated_pdf_list, error_count, qr_count, docxDisk,
                   pdfDisk, master_doc, master_docx_path, master_pdf_path,
                   warnings, errors, traceback, faults>>

CombinePdfItem ==
    /\ pc = "combine_pdf"
    /\ 1 <= idx /\ idx <= Len(generated_pdf_list)

\* os.path.exists(pdf_file) is false
CombinePdfSkipMissing ==
    /\ CombinePdfItem
    /\ generated_pdf_list[idx] \notin DOMAIN pdfDisk
    /\ idx' = idx + 1
    /\ UNCHANGED <<pc, qr_mode, output_format, excel, template, validation,
                   df, has_qr_col, has_county_col, generated_docx_list,
                   generated_pdf_list, error_count, qr_count, docxDisk,
                   pdfDisk, master_doc, master_docx_path, merger,
                   master_pdf_path, warnings, errors, traceback, faults>>

\* merger.append(pdf_file)
CombinePdfAppend ==
    /\ CombinePdfItem
    /\ generated_pdf_list[idx] \in DOMAIN pdfDisk
    /\ pdfDisk[generated_pdf_list[idx]].intact
    /\ merger' = Append(merger, pdfDisk[generated_pdf_list[idx]])
    /\ idx' = idx + 1
    /\ UNCHANGED <<pc, qr_mode, output_format, excel, template, validation,
                   df, has_qr_col, has_county_col, generated_docx_list,
                   generated_pdf_list, error_count, qr_count, docxDisk,
                   pdfDisk, master_doc, master_docx_path, master_pdf_path,
                   warnings, errors, traceback, faults>>

\* merger.append raises (unreadable file, or an injected failure): warned
CombinePdfAppendRaise ==
    /\ CombinePdfItem
    /\ generated_pdf_list[idx] \in DOMAIN pdfDisk
    /\ ~pdfDisk[generated_pdf_list[idx]].intact \/ faults < MaxFaults
    /\ faults' = IF ~pdfDisk[generated_pdf_list[idx]].intact
                 THEN faults ELSE faults + 1
    /\ Warn("combine_pdf", idx)
    /\ idx' = idx + 1
    /\ UNCHANGED <<pc, qr_mode, output_format, excel, template, validation,
                   df, has_qr_col, has_county_col, generated_docx_list,
                   generated_pdf_list, error_count, qr_count, docxDisk,
                   pdfDisk, master_doc, master_docx_path, merger,
                   master_pdf_path, errors, traceback>>

\* merger.write(master_pdf_path); the path joins generated_pdf_list
CombinePdfWrite ==
    /\ pc = "combine_pdf"
    /\ 1 <= idx /\ idx > Len(generated_pdf_list)
    /\ master_pdf_path' = MasterName
    /\ generated_pdf_list' = Append(generated_pdf_list, MasterName)
    /\ pc' = "zip"
    /\ idx' = 0
    /\ UNCHANGED <<qr_mode, output_format, excel, template, validation, df,
                   has_qr_col, has_county_col, generated_docx_list,
                   error_count, qr_count, docxDisk, pdfDisk, master_doc,
                   master_docx_path, merger, warnings, errors, traceback,
                   faults>>

----------------------------------------------------------------------------
(* STEP 5: CREATE ZIP, and the download section *)

\* some path that zf.write is given does not exist
ZipMissing ==
    \/ /\ output_format \in DOCX_FORMATS
       /\ \E k \in 1..Len(generated_docx_list) :
            /\ generated_docx_list[k] # MasterName
            /\ generated_docx_list[k] \notin DOMAIN docxDisk
    \/ /\ output_format \in PDF_FORMATS
       /\ \E k \in 1..Len(generated_pdf_list) :
            /\ generated_pdf_list[k] # MasterName
            /\ generated_pdf_list[k] \notin DOMAIN pdfDisk

ZipOK ==
    /\ pc = "zip"
    /\ ~ZipMissing
    /\ pc' = "download"
    /\ UNCHANGED <<qr_mode, output_format, excel, template, validation, df,
                   has_qr_col, has_county_col, idx, generated_docx_list,
                   generated_pdf_list, error_count, qr_count, docxDisk,
                   pdfDisk, master_doc, master_docx_path, merger,
                   master_pdf_path, warnings, errors, traceback, faults>>

\* zf.write raises FileNotFoundError
ZipRaise ==
    /\ pc = "zip"
    /\ ZipMissing
    /\ errors' = Append(errors, "processing")
    /\ traceback' = "zip"
    /\ pc' = "error"
    /\ UNCHANGED <<qr_mode, output_format, excel, template, validation, df,
                   has_qr_col, has_county_col, idx, generated_docx_list,
                   generated_pdf_list, error_count, qr_count, docxDisk,
                   pdfDisk, master_doc, master_docx_path, merger,
                   master_pdf_path, warnings, faults>>

\* open(master_docx_path) / open(master_pdf_path) with the name never bound
DownloadUnbound ==
    \/ output_format \in DOCX_FORMATS /\ master_docx_path = <<>>
    \/ output_format \in PDF_FORMATS /\ master_pdf_path = <<>>

DownloadOK ==
    /\ pc = "download"
    /\ ~DownloadUnbound
    /\ pc' = "done"
    /\ UNCHANGED <<qr_mode, output_format, excel, template, validation, df,
                   has_qr_col, has_county_col, idx, generated_docx_list,
                   generated_pdf_list, error_count, qr_count, docxDisk,
                   pdfDisk, master_doc, master_docx_path, merger,
                   master_pdf_path, warnings, errors, traceback, faults>>

\* NameError reaches the run-level handler
DownloadRaise ==
    /\ pc = "download"
    /\ DownloadUnbound
    /\ errors' = Append(errors, "processing")
    /\ traceback' = "download"
    /\ pc' = "error"
    /\ UNCHANGED <<qr_mode, output_format, excel, template, validation, df,
                   has_qr_col, has_county_col, idx, generated_docx_list,
                   generated_pdf_list, error_count, qr_count, docxDisk,
                   pdfDisk, master_doc, master_docx_path, merger,
                   master_pdf_path, warnings, faults>>

----------------------------------------------------------------------------

Next ==
    \/ MissingUploads
    \/ ReadExcelRaise
    \/ MissingRequiredCol
    \/ ReadExcel
    \/ MergeSkip
    \/ MergeOK
    \/ MergeRaise
    \/ MergeWriteRaise
    \/ MergeEnd
    \/ ConvertStageSkip
    \/ ConvertOK
    \/ ConvertRaise
    \/ ConvertEnd
    \/ QRStageSkip
    \/ QRSkipRow
    \/ QRNoOverlay
    \/ QROK
    \/ QRRaise
    \/ QRWriteRaise
    \/ QREnd
    \/ CombineDocxSkip
    \/ DocxFileLoss
    \/ DocxFileDamage
    \/ CombineDocxSeed
    \/ CombineDocxSeedRaise
    \/ CombineDocxSkipMissing
    \/ CombineDocxOpenRaise
    \/ CombineDocxAppend
    \/ CombineDocxAppendRaise
    \/ CombineDocxSave
    \/ CombinePdfSkip
    \/ PdfFileLoss
    \/ CombinePdfBegin
    \/ CombinePdfSkipMissing
    \/ CombinePdfAppend
    \/ CombinePdfAppendRaise
    \/ CombinePdfWrite
    \/ ZipOK
    \/ ZipRaise
    \/ DownloadOK
    \/ DownloadRaise

Spec == Init /\ [][Next]_vars

----------------------------------------------------------------------------
(* Properties *)

Processed == {i \in 1..Len(df) : ~Skipped(df[i])}

\* processed records whose key, as it appears in the base name, equals that of i
SameAccount(i) == {j \in Processed : Account(df[j]) = Account(df[i])}

PositionAmong(i) == Cardinality({j \in SameAccount(i) : j <= i})

PolicyName(i) ==
    sanitize_filename(
        IF Cardinality(SameAccount(i)) > 1 /\ PositionAmong(i) > 1
        THEN Account(df[i]) \o <<"_">> \o County(df[i]) \o MailoutSuffix
        ELSE Account(df[i]) \o MailoutSuffix)

InputInvalid == validation # "ok" \/ template = "corrupt"

PerRecord(list) == SelectSeq(list, LAMBDA p : p # MasterName)

MergeWarned == {i \in 1..Len(df) :
                  \E k \in 1..Len(warnings) :
                     warnings[k].step = "merge" /\ warnings[k].id = i}

DocRecs == [k \in 1..Len(SelectSeq(master_doc, LAMBDA x : x.kind = "doc")) |->
              SelectSeq(master_doc, LAMBDA x : x.kind = "doc")[k].rec]

PdfRecs == [k \in 1..Len(merger) |-> merger[k].rec]

\* C1: once the table is loaded, every processed record's base name follows
\* the policy over the key as it appears in the name: the first occurrence of
\* a key (and a key occurring once) is {key}_Mailout, every further occurrence
\* is {key}_{SECONDARY_UPPER}_Mailout; STEP 1 and STEP 3 compute the same name.
C1_BaseNamePolicy ==
    validation = "ok" =>
        \A i \in Processed :
            /\ MergeBaseName(df[i]) = PolicyName(i)
            /\ QRBaseName(df[i]) = MergeBaseName(df[i])

\* C8: every processed record's occurrence_number is its 1-based position
\* among the processed records that share its key value as used in the base
\* name, and its frequency is the number of those records.
C8_OccurrenceOverProcessedKeys ==
    validation = "ok" =>
        \A i \in Processed :
            /\ df[i].occurrence = PositionAmong(i)
            /\ df[i].frequency = Cardinality(SameAccount(i))

\* C10: the generated per-record paths contain no duplicates, each generated
\* document appears at most once in the combined DOCX, and each per-record PDF
\* carries at most one QR overlay.
C10_NoDuplicatePaths ==
    /\ \A i, j \in 1..Len(PerRecord(generated_docx_list)) :
          i # j => PerRecord(generated_docx_list)[i]
                       # PerRecord(generated_docx_list)[j]
    /\ \A i, j \in 1..Len(DocRecs) : i # j => DocRecs[i] # DocRecs[j]
    /\ \A p \in DOMAIN pdfDisk : Len(pdfDisk[p].qr) <= 1

\* C3: the run-level error handler is reached only if input validation failed.
C3_OnlyValidationFatal ==
    pc = "error" => InputInvalid

\* C6: after an input-validation failure (missing key column, missing or
\* corrupt template, unreadable spreadsheet) no merge has been attempted, no
\* per-record warning was emitted, no artifact exists, and the failure is
\* reported once.
C6_ValidationFatalBeforeRecords ==
    (InputInvalid /\ pc # "start") =>
        /\ error_count = 0
        /\ \A k \in 1..Len(warnings) : warnings[k].step = "qr_col"
        /\ DOMAIN docxDisk = {} /\ DOMAIN pdfDisk = {}
        /\ Len(errors) <= 1
        /\ pc \in {"stopped", "error", "done"} => Len(errors) = 1

Existing(list, disk) == SelectSeq(PerRecord(list), LAMBDA p : p \in DOMAIN disk)

AfterCombineDocx ==
    \/ pc \in {"combine_pdf", "zip", "download", "done"}
    \/ pc = "error" /\ traceback \in {"combine_docx", "zip", "download"}

AfterCombinePdf ==
    \/ pc \in {"zip", "download", "done"}
    \/ pc = "error" /\ traceback \in {"zip", "download"}

\* C4: once the combine step is over, the combined DOCX (and the combined PDF)
\* exists and holds the contents of exactly the listed per-record artifacts
\* that exist on disk, in list order, whatever the position of a missing one.
C4_CombinedHoldsExistingInOrder ==
    /\ (AfterCombineDocx /\ CombineDocxStage) =>
          /\ master_docx_path # <<>>
          /\ DocRecs = [k \in 1..Len(Existing(generated_docx_list, docxDisk)) |->
                          docxDisk[Existing(generated_docx_list, docxDisk)[k]].rec]
    /\ (AfterCombinePdf /\ CombinePdfStage) =>
          /\ master_pdf_path # <<>>
          /\ PdfRecs = [k \in 1..Len(Existing(generated_pdf_list, pdfDisk)) |->
                          pdfDisk[Existing(generated_pdf_list, pdfDisk)[k]].rec]

\* C5: in the saved combined DOCX there is exactly one page break between
\* each two consecutive source documents and none anywhere else; a skipped
\* source document leaves no page break behind.
C5_OnePageBreakBetweenDocs ==
    master_docx_path # <<>> =>
        /\ Len(master_doc) % 2 = 1
        /\ \A k \in 1..Len(master_doc) :
              master_doc[k].kind = IF k % 2 = 1 THEN "doc" ELSE "page_break"

\* C7: a step of the QR loop that warns of a failed placement leaves every
\* per-record PDF on disk as it was, and the loop goes on to the next record.
C7_QRFailureRetainsArtifact ==
    [][(pc = "qr" /\ Len(warnings') > Len(warnings)) =>
          /\ pdfDisk' = pdfDisk
          /\ pc' = "qr" /\ idx' = idx + 1]_vars

\* C2: a step of the merge loop in which the merge raises adds exactly one to
\* the error tally, leaves the list of generated artifacts unchanged and moves
\* on to the next record; and no record whose merge raised has its content in
\* the combined DOCX or the combined PDF.
C2_MergeFailureIsolated ==
    [][/\ (pc = "merge" /\ (warnings' # warnings \/ error_count' # error_count)) =>
            /\ error_count' = error_count + 1
            /\ generated_docx_list' = generated_docx_list
            /\ pc' = "merge" /\ idx' = idx + 1
       /\ \A i \in MergeWarned' :
            /\ \A k \in 1..Len(DocRecs') : DocRecs'[k] # i
            /\ \A k \in 1..Len(PdfRecs') : PdfRecs'[k] # i]_vars

\* a record's merge raised, and a later record was generated and is in the
\* saved combined DOCX
C2_Witness ==
    /\ master_docx_path # <<>>
    /\ error_count > 0
    /\ \E i \in MergeWarned : \E k \in 1..Len(DocRecs) : DocRecs[k] > i

DocxCombinerRead ==
    \/ pc = "combine_docx" /\ idx >= 2
    \/ pc \in {"combine_pdf", "zip", "download", "done"}

PdfCombinerRead ==
    \/ pc = "combine_pdf" /\ idx >= 1
    \/ pc \in {"zip", "download", "done"}

\* C9: no step taken after the DOCX combiner has started reading changes a
\* per-record DOCX, and no step taken after the PDF combiner has started
\* reading changes a per-record PDF (archiving and download included).
C9_NoWriteAfterCombinerRead ==
    [][/\ DocxCombinerRead => docxDisk' = docxDisk
       /\ PdfCombinerRead => pdfDisk' = pdfDisk]_vars

\* a finished run that merged, converted, overlaid a QR code and built both
\* combined documents
C9_Witness ==
    /\ pc = "done"
    /\ master_docx_path # <<>> /\ master_pdf_path # <<>>
    /\ qr_count > 0
    /\ Len(DocRecs) > 1 /\ Len(PdfRecs) > 1

====
